---- MODULE Spec2Model ----
(***************************************************************************)
(* RSM minting engine (rsm_minting_engine.py) and its distribution audit   *)
(* (test_distribution_fixed.py) as a state machine.                        *)
(*                                                                         *)
(* Number system.  The program computes in IEEE doubles.  Here an amount   *)
(* is an integer number of units, UNIT units to the token, and a product   *)
(* or quotient is rounded to MANTISSA significant bits (Fl), as a double   *)
(* rounds to 53.  The constants are scaled to that precision so that they  *)
(* keep their order and the cases they separate:                           *)
(*     one ulp below BINADE < 1e-8 (DIST_TOL) < one ulp above BINADE       *)
(*     < 1e-6 (AUDIT_TOL) < MIN_MINT_THRESHOLD < BINADE < MAX_SUPPLY       *)
(* with BINADE standing for 2^26 tokens, the power of two under            *)
(* MAX_SUPPLY = 100_000_666 (about 1.49 * 2^26; here 1.5 * BINADE).        *)
(* Computed totals are whole tokens, so sums and differences of stored     *)
(* totals are exact, as they are to well below 1e-8 in the program.        *)
(* Scores are integers out of SCORE; logarithms are tabulated.             *)
(***************************************************************************)
EXTENDS Integers, Sequences, FiniteSets

\* ---------------------------------------------------------------- bounds
NumGenomes == 3      \* rows of human_genome
MaxBatch == 3        \* --batch-size ranges over 1..MaxBatch
SampleSize == 2      \* calibrate_K's sample_size (1000 in the source)

\* ------------------------------------------------------------ arithmetic
MANTISSA == 2^12     \* significant bits of the model's floating point
UNIT == 2^12         \* units per token
SCORE == 12 * 50     \* a metric of 1.0; 1/2, 1/3 and 1/4 of it are whole

Abs(x) == IF x < 0 THEN -x ELSE x

Min(a, b) == IF a < b THEN a ELSE b

Max(a, b) == IF a > b THEN a ELSE b

\* n / d to the nearest integer, for n >= 0 and d > 0
RoundDiv(n, d) == (2 * n + d) \div (2 * d)

RECURSIVE Ulp(_)
\* the spacing of representable numbers at magnitude x >= 0
Ulp(x) == IF x < MANTISSA THEN 1 ELSE 2 * Ulp(x \div 2)

\* n / d (n >= 0, d > 0) rounded to the nearest representable number,
\* ties to the even significand
FlAbs(n, d) ==
    LET u == Ulp(n \div d)
        du == d * u
        q == n \div du
        r == n - q * du
    IN  IF 2 * r < du THEN q * u
        ELSE IF 2 * r > du THEN (q + 1) * u
        ELSE IF q % 2 = 0 THEN q * u ELSE (q + 1) * u

Fl(n, d) == IF n < 0 THEN -FlAbs(-n, d) ELSE FlAbs(n, d)

\* a ratio constant m / 2^e, and x times it
FlMul(x, ratio) == Fl(x * ratio.m, 2^(ratio.e))

\* ------------------------------------------------------------- constants
ALPHA == 50          \* AGI_WEIGHTS, in hundredths
BETA == 25
GAMMA == 15
DELTA == 10
RAW_ONE == 100 * SCORE                    \* a raw score of 1.0

MAX_SUPPLY == 96 * UNIT
BINADE == 64 * UNIT
MIN_MINT_THRESHOLD == 3 * UNIT
MARKET_RATIO == [m |-> FlAbs(6 * 2^12, 7), e |-> 12]     \* fl(6.0 / 7.0)
FOUNDER_RATIO == [m |-> FlAbs(1 * 2^14, 7), e |-> 14]    \* fl(1.0 / 7.0)
DIST_TOL == 86       \* 1e-8 of the assertion
AUDIT_TOL == 8600    \* 1e-6 of the audit

BlockchainWeight(name) ==
    CASE name = "bitcoin" -> SCORE
      [] name = "ethereum" -> (9 * SCORE) \div 10
      [] name = "solana" -> (85 * SCORE) \div 100
      [] name \in {"polygon", "arbitrum", "avalanche", "optimism", "base", "zkevm"}
            -> (7 * SCORE) \div 10
      [] name = "bsc" -> (6 * SCORE) \div 10
      [] OTHER -> SCORE \div 2

\* ---------------------------------------------------------------- tables
\* log2(1 + L) / log2(101) out of SCORE
LengthLog(L) ==
    CASE L = 0 -> 0 [] L = 1 -> 90 [] L = 2 -> 143 [] L = 3 -> 180 [] L = 4 -> 209

\* -p * log2(p) out of SCORE, p = c / t
PLogP(c, t) ==
    CASE c = t -> 0
      [] 2 * c = t -> 300
      [] 4 * c = t -> 300
      [] 3 * c = t -> 317
      [] 3 * c = 2 * t -> 234
      [] 4 * c = 3 * t -> 187

\* log2(h) / 32 out of SCORE
HeightLog(h) == CASE h = 1 -> 0 [] h = 65536 -> 300

\* ----------------------------------------------------------------- store
Ids == 1..NumGenomes

Count(s, ch) == Cardinality({i \in DOMAIN s : s[i] = ch})

\* the rows a table can hold before any minting: the columns the engine reads
GenomeKinds ==
    { [blockchain |-> "bitcoin", consciousness |-> 81,
       dna_tetrad |-> <<"A", "T", "G", "C">>, block_height |-> 65536],
      [blockchain |-> "solana", consciousness |-> 27,
       dna_tetrad |-> <<"A", "T", "G">>, block_height |-> 0],
      [blockchain |-> "unknown", consciousness |-> 0,
       dna_tetrad |-> <<>>, block_height |-> 0] }

NoScores == [complexity |-> 0, uniqueness |-> 0, entropy |-> 0, blockchain |-> 0]

K_ONE == [num |-> 1, den |-> RAW_ONE]     \* K = 1.0

NewRow(i, kind) ==
    [id |-> i, blockchain |-> kind.blockchain, consciousness |-> kind.consciousness,
     dna_tetrad |-> kind.dna_tetrad, block_height |-> kind.block_height,
     rsm_minted |-> FALSE, rsm_tokens_total |-> 0, rsm_tokens_market |-> 0,
     rsm_tokens_founder |-> 0, rsm_scores |-> NoScores, rsm_calibration_k |-> K_ONE]

\* ---------------------------------------------------------------- metrics
Clamp01(x) == Max(0, Min(SCORE, x))

\* C(G): 0.6 * consciousness/81 + 0.3 * log2(1+L)/log2(101) + 0.1 * GC content
calculate_consciousness_complexity(genome) ==
    LET dna_length == Len(genome.dna_tetrad)
        c_norm == RoundDiv(genome.consciousness * SCORE, 81)
        l_component == LengthLog(dna_length)
        gc_content ==
            IF dna_length > 0
            THEN RoundDiv((Count(genome.dna_tetrad, "G") + Count(genome.dna_tetrad, "C"))
                          * SCORE, dna_length)
            ELSE SCORE \div 2
    IN  Clamp01(RoundDiv(6 * c_norm + 3 * l_component + 1 * gc_content, 10))

\* a uniqueness that counts only the earlier duplicates already minted
UniquenessAmongMinted(genome, db) ==
    LET duplicates ==
            Cardinality({i \in Ids : /\ db[i].dna_tetrad = genome.dna_tetrad
                                     /\ i < genome.id
                                     /\ db[i].rsm_minted})
    IN  IF genome.dna_tetrad = <<>> THEN 0
        ELSE IF duplicates = 0 THEN SCORE
        ELSE RoundDiv(SCORE, 1 + duplicates)

\* U(G): 1 / (1 + rows with the same dna_tetrad and a smaller id); 0 for no DNA
calculate_uniqueness(genome, db) ==
    LET duplicates ==
            Cardinality({i \in Ids : db[i].dna_tetrad = genome.dna_tetrad /\ i < genome.id})
    IN  IF genome.dna_tetrad = <<>> THEN 0
        ELSE IF duplicates = 0 THEN SCORE
        ELSE RoundDiv(SCORE, 1 + duplicates)

\* H(G): Shannon entropy over {A, T, G, C}, divided by its maximum of 2 bits
calculate_entropy(genome) ==
    LET dna == genome.dna_tetrad
        total == Count(dna, "A") + Count(dna, "T") + Count(dna, "G") + Count(dna, "C")
        term(ch) == IF Count(dna, ch) > 0 THEN PLogP(Count(dna, ch), total) ELSE 0
    IN  IF dna = <<>> \/ total = 0 THEN 0
        ELSE RoundDiv(term("A") + term("T") + term("G") + term("C"), 2)

\* B(G): 0.7 * blockchain weight + 0.3 * min(log2(height) / 32, 1)
calculate_blockchain_metric(genome) ==
    LET w_blockchain == BlockchainWeight(genome.blockchain)
        w_height ==
            IF genome.block_height > 0
            THEN Min(HeightLog(genome.block_height), SCORE)
            ELSE 0
    IN  Clamp01(RoundDiv(7 * w_blockchain + 3 * w_height, 10))

Scores(genome, db) ==
    [complexity |-> calculate_consciousness_complexity(genome),
     uniqueness |-> calculate_uniqueness(genome, db),
     entropy |-> calculate_entropy(genome),
     blockchain |-> calculate_blockchain_metric(genome)]

\* alpha*C + beta*U + gamma*H + delta*B, out of RAW_ONE
RawScore(scores) ==
    ALPHA * scores.complexity + BETA * scores.uniqueness
    + GAMMA * scores.entropy + DELTA * scores.blockchain

\* K * raw_score.  K is held as the fraction num/den of tokens per 1/RAW_ONE of
\* raw score; the product is a whole number of tokens, in units.
KTimes(k, raw) == UNIT * RoundDiv(k.num * raw, k.den)

calculate_token_amount(genome, k, db) == KTimes(k, RawScore(Scores(genome, db)))

\* ------------------------------------------------------------ store reads
RECURSIVE SumTotals(_, _)
SumTotals(db, ids) ==
    IF ids = {} THEN 0
    ELSE LET i == CHOOSE j \in ids : TRUE
         IN  db[i].rsm_tokens_total + SumTotals(db, ids \ {i})

Minted(db) == {i \in Ids : db[i].rsm_minted}

Unminted(db) == Ids \ Minted(db)

\* SELECT COALESCE(SUM(rsm_tokens_total), 0) ... WHERE rsm_minted = TRUE
get_current_supply(db) == SumTotals(db, Minted(db))

\* SELECT COUNT(*) FROM human_genome
get_genome_count(db) == Cardinality(Ids)

RECURSIVE SortedIds(_)
\* the ids of a set in ascending order
SortedIds(ids) ==
    IF ids = {} THEN <<>>
    ELSE LET lo == CHOOSE i \in ids : \A j \in ids : i <= j
         IN  <<lo>> \o SortedIds(ids \ {lo})

\* the page query without its WHERE clause
FetchAnyPage(db, limit, off) ==
    [k \in 1..Max(0, Min(limit, NumGenomes - off)) |-> db[off + k]]

\* SELECT * ... WHERE rsm_minted = FALSE ORDER BY id LIMIT limit OFFSET offset
FetchUnmintedPage(db, limit, off) ==
    LET ids == SortedIds(Unminted(db))
        n == Len(ids)
    IN  [k \in 1..Max(0, Min(limit, n - off)) |-> db[ids[off + k]]]

\* ----------------------------------------------------------- calibration
\* SELECT * ... WHERE rsm_minted = FALSE ORDER BY RANDOM() LIMIT sample_size:
\* any sample_size of the unminted rows, or all of them when there are fewer
Samples(db, sample_size) ==
    {s \in SUBSET Unminted(db) : Cardinality(s) = Min(sample_size, Cardinality(Unminted(db)))}

RECURSIVE SumRaw(_, _)
SumRaw(db, ids) ==
    IF ids = {} THEN 0
    ELSE LET i == CHOOSE j \in ids : TRUE
         IN  RawScore(Scores(db[i], db)) + SumRaw(db, ids \ {i})

\* a calibration against the sample's own sum of raw scores, not extrapolated
\* to the whole table
CalibrateOverSample(k, db, sample, target_supply) ==
    LET total_raw_score == SumRaw(db, sample)
    IN  IF sample = {} THEN k
        ELSE IF total_raw_score > 0
        THEN [num |-> target_supply \div UNIT, den |-> total_raw_score]
        ELSE K_ONE

\* K = target_supply / (avg_raw_score * total_genomes), avg = total_raw_score / len;
\* the engine's K is kept when the sample is empty, 1.0 when the estimate is 0
calibrate_K(k, db, sample, target_supply) ==
    LET total_raw_score == SumRaw(db, sample)
        total_genomes == get_genome_count(db)
    IN  IF sample = {} THEN k
        ELSE IF total_raw_score * total_genomes > 0
        THEN [num |-> (target_supply \div UNIT) * Cardinality(sample),
              den |-> total_raw_score * total_genomes]
        ELSE K_ONE

\* ------------------------------------------------------------ mint_tokens
\* a clamp that hands out all that is left of the supply, needed or not
ClampToHeadroom(total_tokens, current_supply) == MAX_SUPPLY - current_supply

\* a clamp to the maximum supply instead of to what is left of it
ClampToMaximum(total_tokens, current_supply) == Min(total_tokens, MAX_SUPPLY)

\* if current_supply + total_tokens > MAX_SUPPLY: total_tokens = MAX_SUPPLY - current_supply
ClampToSupply(total_tokens, current_supply) ==
    IF current_supply + total_tokens > MAX_SUPPLY
    THEN MAX_SUPPLY - current_supply
    ELSE total_tokens

\* the two ratios exchanged
DistributionSwapped(total_tokens) ==
    [market |-> FlMul(total_tokens, FOUNDER_RATIO),
     founder |-> FlMul(total_tokens, MARKET_RATIO)]

\* the 6:1 distribution of a total
Distribution(total_tokens) ==
    [market |-> FlMul(total_tokens, MARKET_RATIO),
     founder |-> FlMul(total_tokens, FOUNDER_RATIO)]

\* assert abs(distribution_sum - total_tokens) < 1e-8
DistributionAssert(total_tokens, market_tokens, founder_tokens) ==
    Abs(Fl(market_tokens + founder_tokens, 1) - total_tokens) < DIST_TOL

\* a guard that lets every row through
NeverMinted(genome) == FALSE

\* if genome.get('rsm_minted'): return None
AlreadyMinted(genome) == genome.rsm_minted

\* a threshold check that skips nothing
BelowNothing(total_tokens) == FALSE

\* if total_tokens < MIN_MINT_THRESHOLD: return None
BelowThreshold(total_tokens) == total_tokens < MIN_MINT_THRESHOLD

\* mint_tokens up to its UPDATE: what it would do with this row, this K and
\* this table.  kind: "already" and "below" return None, "assert" raises
\* AssertionError, "update" goes on to the UPDATE with the values given.
MintPlan(genome, k, db) ==
    LET computed == calculate_token_amount(genome, k, db)
        total_tokens == ClampToSupply(computed, get_current_supply(db))
        dist == Distribution(total_tokens)
        kind ==
            IF AlreadyMinted(genome) THEN "already"
            ELSE IF BelowThreshold(computed) THEN "below"
            ELSE IF ~DistributionAssert(total_tokens, dist.market, dist.founder)
            THEN "assert"
            ELSE "update"
    IN  [kind |-> kind, genome_id |-> genome.id, computed |-> computed,
         total |-> total_tokens, market |-> dist.market, founder |-> dist.founder,
         scores |-> Scores(genome, db)]

\* UPDATE human_genome SET ... WHERE id = genome_id, committed
Update(db, plan, k) ==
    [db EXCEPT ![plan.genome_id] =
        [@ EXCEPT !.rsm_tokens_total = plan.total,
                  !.rsm_tokens_market = plan.market,
                  !.rsm_tokens_founder = plan.founder,
                  !.rsm_scores = plan.scores,
                  !.rsm_minted = TRUE,
                  !.rsm_calibration_k = k]]

\* ----------------------------------------------------------------- state
VARIABLES
    store,                  \* table human_genome: id -> row
    K,                      \* engine.K
    total_minted,           \* engine.total_minted
    total_genomes_minted,   \* engine.total_genomes_minted
    command,                \* the command line running: its option
    pc,                     \* where the running command is
    batch_size,             \* mint_all_genomes: its parameter
    offset,                 \* mint_all_genomes: offset
    genomes,                \* mint_all_genomes: the page fetched, rows as read
    idx,                    \* mint_all_genomes: position of the for loop in the page
    total_minted_count,     \* mint_all_genomes: total_minted_count
    total_minted_tokens,    \* mint_all_genomes: total_minted_tokens
    updates,                \* UPDATE statements executed by the running command
    last,                   \* outcome of the latest mint_tokens call (its console line)
    store0,                 \* the table when the running command started
    procs                   \* concurrent engines: process -> where its mint_tokens stands

vars ==
    <<store, K, total_minted, total_genomes_minted, command, pc, batch_size, offset,
      genomes, idx, total_minted_count, total_minted_tokens, updates, last, store0,
      procs>>

NoCall == [genome_id |-> 0, kind |-> "none", total |-> 0]

\* the two engines of the concurrent runs
Procs == {"p1", "p2"}

NoPlan ==
    [kind |-> "none", genome_id |-> 0, computed |-> 0, total |-> 0, market |-> 0,
     founder |-> 0, scores |-> NoScores]

\* an engine process that has not started
IdleProc == [pc |-> "idle", plan |-> NoPlan, K |-> K_ONE, current_supply |-> 0]

Init ==
    /\ \E kinds \in [Ids -> GenomeKinds] : store = [i \in Ids |-> NewRow(i, kinds[i])]
    /\ K = K_ONE
    /\ total_minted = 0
    /\ total_genomes_minted = 0
    /\ command = "none"
    /\ pc = "idle"
    /\ batch_size = 1
    /\ offset = 0
    /\ genomes = <<>>
    /\ idx = 1
    /\ total_minted_count = 0
    /\ total_minted_tokens = 0
    /\ updates = 0
    /\ last = NoCall
    /\ store0 = store
    /\ procs = [p \in Procs |-> IdleProc]

\* mint_tokens whose except branch leaves the failed row's write in the table
MintTokensNoRollback(genome, k, minted0, count0, updates0) ==
    LET plan == MintPlan(genome, k, store)
    IN  \/ /\ plan.kind \in {"already", "below", "assert"}
           /\ store' = store
           /\ total_minted' = minted0
           /\ total_genomes_minted' = count0
           /\ updates' = updates0
           /\ last' = [genome_id |-> genome.id, kind |-> plan.kind, total |-> 0]
        \/ /\ plan.kind = "update"
           /\ store' = Update(store, plan, k)
           /\ total_minted' = minted0 + plan.total
           /\ total_genomes_minted' = count0 + 1
           /\ updates' = updates0 + 1
           /\ last' = [genome_id |-> genome.id, kind |-> "minted", total |-> plan.total]
        \/ /\ plan.kind = "update"
           /\ store' = Update(store, plan, k)
           /\ total_minted' = minted0
           /\ total_genomes_minted' = count0
           /\ updates' = updates0 + 1
           /\ last' = [genome_id |-> genome.id, kind |-> "failed", total |-> 0]

\* mint_tokens(genome) on an engine with calibration constant k and statistics
\* minted0, count0, after updates0 UPDATEs: the table, the statistics and the outcome
MintTokens(genome, k, minted0, count0, updates0) ==
    LET plan == MintPlan(genome, k, store)
    IN  \/ /\ plan.kind \in {"already", "below", "assert"}
           /\ store' = store
           /\ total_minted' = minted0
           /\ total_genomes_minted' = count0
           /\ updates' = updates0
           /\ last' = [genome_id |-> genome.id, kind |-> plan.kind, total |-> 0]
        \/ /\ plan.kind = "update"              \* the UPDATE and the commit succeed
           /\ store' = Update(store, plan, k)
           /\ total_minted' = minted0 + plan.total
           /\ total_genomes_minted' = count0 + 1
           /\ updates' = updates0 + 1
           /\ last' = [genome_id |-> genome.id, kind |-> "minted", total |-> plan.total]
        \/ /\ plan.kind = "update"              \* they raise: rollback, return None
           /\ store' = store
           /\ total_minted' = minted0
           /\ total_genomes_minted' = count0
           /\ updates' = updates0 + 1
           /\ last' = [genome_id |-> genome.id, kind |-> "failed", total |-> 0]

\* main --mint-all --batch-size bs: a new engine, calibrate_K(), and
\* mint_all_genomes up to its loop
RunMintAll(bs, sample) ==
    /\ pc = "idle"
    /\ K' = calibrate_K(K_ONE, store, sample, MAX_SUPPLY)
    /\ total_minted' = 0
    /\ total_genomes_minted' = 0
    /\ command' = "mint-all"
    /\ pc' = "paging"
    /\ batch_size' = bs
    /\ offset' = 0
    /\ genomes' = <<>>
    /\ idx' = 1
    /\ total_minted_count' = 0
    /\ total_minted_tokens' = 0
    /\ updates' = 0
    /\ last' = NoCall
    /\ store0' = store
    /\ UNCHANGED store
    /\ UNCHANGED procs

\* mint_all_genomes: the page query at the head of the loop, and the break on
\* an empty page
FetchPage ==
    /\ pc = "paging"
    /\ genomes' = FetchUnmintedPage(store, batch_size, offset)
    /\ idx' = 1
    /\ pc' = IF genomes' = <<>> THEN "done" ELSE "processing"
    /\ UNCHANGED <<store, K, total_minted, total_genomes_minted, command, batch_size,
                   offset, total_minted_count, total_minted_tokens, updates, last, store0>>
    /\ UNCHANGED procs

\* mint_all_genomes: one turn of "for genome in genomes"
MintStep ==
    /\ pc = "processing"
    /\ idx <= Len(genomes)
    /\ MintTokens(genomes[idx], K, total_minted, total_genomes_minted, updates)
    /\ idx' = idx + 1
    /\ pc' = IF last'.kind = "assert" THEN "crashed" ELSE "processing"
    /\ total_minted_count' = total_minted_count + (IF last'.kind = "minted" THEN 1 ELSE 0)
    /\ total_minted_tokens' = total_minted_tokens + last'.total
    /\ UNCHANGED <<K, command, batch_size, offset, genomes, store0>>
    /\ UNCHANGED procs

\* mint_all_genomes: after the for loop, offset += batch_size and the stop at
\* the maximum supply
EndPage ==
    /\ pc = "processing"
    /\ idx > Len(genomes)
    /\ offset' = offset + batch_size
    /\ pc' = IF get_current_supply(store) >= MAX_SUPPLY THEN "done" ELSE "paging"
    /\ UNCHANGED <<store, K, total_minted, total_genomes_minted, command, batch_size,
                   genomes, idx, total_minted_count, total_minted_tokens, updates, last,
                   store0>>
    /\ UNCHANGED procs

\* main --mint-genome id: a new engine, the row read, calibrate_K(), mint_tokens
RunMintGenome(id, sample) ==
    /\ pc = "idle"
    /\ K' = calibrate_K(K_ONE, store, sample, MAX_SUPPLY)
    /\ MintTokens(store[id], K', 0, 0, 0)
    /\ command' = "mint-genome"
    /\ pc' = IF last'.kind = "assert" THEN "crashed" ELSE "done"
    /\ batch_size' = 1
    /\ offset' = 0
    /\ genomes' = <<>>
    /\ idx' = 1
    /\ total_minted_count' = 0
    /\ total_minted_tokens' = 0
    /\ store0' = store
    /\ UNCHANGED procs

\* main --calibrate: a new engine and calibrate_K()
RunCalibrate(sample) ==
    /\ pc = "idle"
    /\ K' = calibrate_K(K_ONE, store, sample, MAX_SUPPLY)
    /\ command' = "calibrate"
    /\ pc' = "done"
    /\ total_minted' = 0
    /\ total_genomes_minted' = 0
    /\ batch_size' = 1
    /\ offset' = 0
    /\ genomes' = <<>>
    /\ idx' = 1
    /\ total_minted_count' = 0
    /\ total_minted_tokens' = 0
    /\ updates' = 0
    /\ last' = NoCall
    /\ store0' = store
    /\ UNCHANGED store
    /\ UNCHANGED procs

\* the command returns or dies of the AssertionError; the engine is gone, the
\* table stays
Exit ==
    /\ pc \in {"done", "crashed"}
    /\ command' = "none"
    /\ pc' = "idle"
    /\ K' = K_ONE
    /\ total_minted' = 0
    /\ total_genomes_minted' = 0
    /\ batch_size' = 1
    /\ offset' = 0
    /\ genomes' = <<>>
    /\ idx' = 1
    /\ total_minted_count' = 0
    /\ total_minted_tokens' = 0
    /\ updates' = 0
    /\ last' = NoCall
    /\ store0' = store
    /\ UNCHANGED store
    /\ UNCHANGED procs

Next ==
    \/ \E bs \in 1..MaxBatch, sample \in Samples(store, SampleSize) : RunMintAll(bs, sample)
    \/ FetchPage
    \/ MintStep
    \/ EndPage
    \/ \E id \in Ids, sample \in Samples(store, SampleSize) : RunMintGenome(id, sample)
    \/ \E sample \in Samples(store, SampleSize) : RunCalibrate(sample)
    \/ Exit

Spec == Init /\ [][Next]_vars

\* ------------------------------------------------------- concurrent runs
\* what only the sequential commands use
SeqVars ==
    <<K, total_minted, total_genomes_minted, command, pc, batch_size, offset, genomes,
      idx, total_minted_count, total_minted_tokens, updates, last, store0>>

\* process p runs --mint-genome id: the row read, calibrate_K(), and mint_tokens
\* up to its UPDATE, the supply read included.  Its reads see what is committed.
ProcMintTokens(p, id, sample) ==
    /\ procs[p].pc = "idle"
    /\ LET k == calibrate_K(K_ONE, store, sample, MAX_SUPPLY)
           plan == MintPlan(store[id], k, store)
       IN  procs' = [procs EXCEPT ![p] =
                        [pc |-> IF plan.kind = "update" THEN "decided" ELSE "returned",
                         plan |-> plan, K |-> k,
                         current_supply |-> get_current_supply(store)]]
    /\ UNCHANGED <<store, SeqVars>>

\* process p executes its UPDATE and commits, with the amounts it decided on
ProcUpdate(p) ==
    /\ procs[p].pc = "decided"
    /\ store' = Update(store, procs[p].plan, procs[p].K)
    /\ procs' = [procs EXCEPT ![p].pc = "returned"]
    /\ UNCHANGED SeqVars

\* the UPDATE or the commit of process p raises: rollback
ProcUpdateFails(p) ==
    /\ procs[p].pc = "decided"
    /\ procs' = [procs EXCEPT ![p].pc = "returned"]
    /\ UNCHANGED <<store, SeqVars>>

ConcNext ==
    \/ \E p \in Procs, id \in Ids, sample \in Samples(store, SampleSize) :
          ProcMintTokens(p, id, sample)
    \/ \E p \in Procs : ProcUpdate(p)
    \/ \E p \in Procs : ProcUpdateFails(p)

\* two engine processes started on one table, each running --mint-genome once
ConcSpec == Init /\ [][ConcNext]_vars

\* the for loop stands at a row of the page: MintStep is enabled exactly here,
\* since mint_tokens has an outcome for every row and the step moves idx
AtRow == pc = "processing" /\ idx <= Len(genomes)

\* WF_vars(MintStep), with ENABLED <<MintStep>>_vars written out as AtRow
FairMintStep == []<>(~AtRow) \/ []<><<MintStep>>_vars

\* mint_all_genomes is one sequential loop of one process: whenever it stands
\* at the page query, at a row of the page or at the end of the page, it takes
\* that step.  Nothing obliges anyone to start a command or the shell to return.
LiveSpec == Spec /\ WF_vars(FetchPage) /\ FairMintStep /\ WF_vars(EndPage)

\* ----------------------------------------------------------------- audit
\* test_distribution: is_valid of one row of its query. The ratio column is
\* market / founder when founder > 0 and 0 otherwise, so abs(ratio - 6.0) < 0.01
\* is 100 * |market - 6 * founder| < founder with founder > 0.
AuditRowValid(row) ==
    LET total == row.rsm_tokens_total
        market == row.rsm_tokens_market
        founder == row.rsm_tokens_founder
        market_error == Abs(market - FlMul(total, MARKET_RATIO))
        founder_error == Abs(founder - FlMul(total, FOUNDER_RATIO))
        sum_error == Abs(Fl(market + founder, 1) - total)
    IN  /\ market_error < AUDIT_TOL
        /\ founder_error < AUDIT_TOL
        /\ sum_error < AUDIT_TOL
        /\ founder > 0
        /\ 100 * Abs(market - 6 * founder) < founder

\* ================================================================ claims
Row(i) == store[i]

\* what calculate_token_amount gave for row i when it was minted: the columns
\* it reads never change, and rsm_calibration_k holds the K it was minted with
ComputedFor(i) == calculate_token_amount(store[i], store[i].rsm_calibration_k, store)

\* C1: the sum of rsm_tokens_total over the rows with rsm_minted = TRUE never
\* exceeds MAX_SUPPLY, whatever commands have run.
C1_SupplyCeiling == get_current_supply(store) <= MAX_SUPPLY

\* a mint was clamped and filled the supply exactly
C1_Witness ==
    /\ last.kind = "minted"
    /\ last.total > 0
    /\ last.total < ComputedFor(last.genome_id)
    /\ get_current_supply(store) = MAX_SUPPLY

\* C2: every minted row holds market = total * MARKET_RATIO and
\* founder = total * FOUNDER_RATIO of its stored (possibly clamped) total, and
\* market + founder is within 1e-8 of that total.
C2_FixedRatioSplit ==
    \A i \in Minted(store) :
        /\ Row(i).rsm_tokens_market = FlMul(Row(i).rsm_tokens_total, MARKET_RATIO)
        /\ Row(i).rsm_tokens_founder = FlMul(Row(i).rsm_tokens_total, FOUNDER_RATIO)
        /\ Abs(Fl(Row(i).rsm_tokens_market + Row(i).rsm_tokens_founder, 1)
               - Row(i).rsm_tokens_total) < DIST_TOL

\* a minted row whose total was clamped, with its split, and another minted
\* row whose split is rounded (market + founder differs from the total)
C2_Witness ==
    /\ \E i \in Minted(store) :
          /\ Row(i).rsm_tokens_total > 0
          /\ Row(i).rsm_tokens_total < ComputedFor(i)
    /\ \E i \in Minted(store) :
          Row(i).rsm_tokens_market + Row(i).rsm_tokens_founder # Row(i).rsm_tokens_total

\* C3: once a row has rsm_minted = TRUE no step writes to it: every column of
\* it, the flag included, is the same in every later state.
C3_MintedRowsFrozen ==
    [][\A i \in Ids : store[i].rsm_minted => store'[i] = store[i]]_vars

\* mint_tokens was called on a row already minted and returned None
C3_Witness ==
    /\ last.kind = "already"
    /\ Row(last.genome_id).rsm_minted
    /\ Row(last.genome_id).rsm_tokens_total > 0

\* C4: mint_all_genomes on a table in which every row is minted executes no
\* UPDATE, mints nothing, never calls mint_tokens (its first page is empty)
\* and leaves the table as it was.
C4_DriverIdempotence ==
    (command = "mint-all" /\ Unminted(store0) = {}) =>
        /\ updates = 0
        /\ total_minted_count = 0
        /\ total_minted_tokens = 0
        /\ genomes = <<>>
        /\ last = NoCall
        /\ store = store0
        /\ pc \in {"paging", "done"}

\* mint_all_genomes has run to its end on a fully minted table
C4_Witness ==
    /\ command = "mint-all"
    /\ Unminted(store0) = {}
    /\ pc = "done"

\* C5: when mint_all_genomes returns with the supply below MAX_SUPPLY and no
\* UPDATE of the run has failed, every row that was unminted when the run
\* started and whose computed total is at least MIN_MINT_THRESHOLD is minted,
\* for every batch_size.
C5_DriverCompleteness ==
    (/\ command = "mint-all"
     /\ pc = "done"
     /\ get_current_supply(store) < MAX_SUPPLY
     /\ updates = total_minted_count) =>
        \A i \in Unminted(store0) :
            calculate_token_amount(store0[i], K, store0) >= MIN_MINT_THRESHOLD
                => Row(i).rsm_minted

\* C6: a row that a step mints holds as its total MAX_SUPPLY - current supply
\* when current supply + computed total > MAX_SUPPLY and the computed total
\* otherwise, and its market and founder amounts are the split of that total.
C6_CeilingClampValue ==
    [][\A i \in Ids :
          (~store[i].rsm_minted /\ store'[i].rsm_minted) =>
              LET k == store'[i].rsm_calibration_k
                  computed == calculate_token_amount(store[i], k, store)
                  current_supply == get_current_supply(store)
                  total == IF current_supply + computed > MAX_SUPPLY
                           THEN MAX_SUPPLY - current_supply
                           ELSE computed
              IN  /\ store'[i].rsm_tokens_total = total
                  /\ store'[i].rsm_tokens_market = FlMul(total, MARKET_RATIO)
                  /\ store'[i].rsm_tokens_founder = FlMul(total, FOUNDER_RATIO)]_vars

\* a mint was clamped to a total below the threshold its computed total had
\* passed, and the row holds the split of the clamped total
C6_Witness ==
    /\ last.kind = "minted"
    /\ last.total > 0
    /\ last.total < MIN_MINT_THRESHOLD
    /\ ComputedFor(last.genome_id) >= MIN_MINT_THRESHOLD
    /\ Row(last.genome_id).rsm_tokens_total = last.total
    /\ Row(last.genome_id).rsm_tokens_market = FlMul(last.total, MARKET_RATIO)

\* C7: mint_tokens on an unminted row whose computed total is below
\* MIN_MINT_THRESHOLD writes nothing: the table (so the row and the supply),
\* total_minted, total_genomes_minted and the number of UPDATEs stay as they
\* were, in the driver's loop and in --mint-genome alike.
C7_ThresholdSkip ==
    [][/\ (/\ pc = "processing"
           /\ idx <= Len(genomes)
           /\ ~genomes[idx].rsm_minted
           /\ calculate_token_amount(genomes[idx], K, store) < MIN_MINT_THRESHOLD) =>
              /\ store' = store
              /\ total_minted' = total_minted
              /\ total_genomes_minted' = total_genomes_minted
              /\ updates' = updates
              /\ last'.kind = "below"
       /\ (/\ pc = "idle"
           /\ command' = "mint-genome"
           /\ ~store[last'.genome_id].rsm_minted
           /\ calculate_token_amount(store[last'.genome_id], K', store)
                  < MIN_MINT_THRESHOLD) =>
              /\ store' = store
              /\ total_minted' = 0
              /\ total_genomes_minted' = 0
              /\ updates' = 0
              /\ last'.kind = "below"]_vars

\* the driver's loop has skipped an unminted row below the threshold
C7_Witness ==
    /\ command = "mint-all"
    /\ last.kind = "below"
    /\ ~Row(last.genome_id).rsm_minted
    /\ calculate_token_amount(Row(last.genome_id), K, store) < MIN_MINT_THRESHOLD

\* C8: every minted row passes the audit's per-row condition: market, founder
\* and their sum within 1e-6 of the split of the total, and market / founder
\* (0 when founder is not > 0) within 0.01 of 6.
C8_AuditPasses == \A i \in Minted(store) : AuditRowValid(Row(i))

\* C9: a step in which the UPDATE of mint_tokens fails leaves the whole table
\* as it was (the row unminted, every committed row untouched) and the
\* statistics as they were, and in the driver the loop goes on to the next
\* row of the same page.
C9_FailureIsolation ==
    [][(last'.kind = "failed" /\ updates' = updates + 1) =>
          /\ store' = store
          /\ ~store'[last'.genome_id].rsm_minted
          /\ pc = "processing" =>
                /\ total_minted' = total_minted
                /\ total_genomes_minted' = total_genomes_minted
                /\ total_minted_count' = total_minted_count
                /\ total_minted_tokens' = total_minted_tokens
                /\ pc' = "processing"
                /\ genomes' = genomes
                /\ idx' = idx + 1
          /\ pc = "idle" =>
                /\ total_minted' = 0
                /\ total_genomes_minted' = 0]_vars

\* in the driver a write has failed after another row was committed, and the
\* loop stands at the next row of the page
C9_Witness ==
    /\ command = "mint-all"
    /\ pc = "processing"
    /\ last.kind = "failed"
    /\ ~Row(last.genome_id).rsm_minted
    /\ idx <= Len(genomes)
    /\ total_minted_count > 0

\* C10: once the supply has reached MAX_SUPPLY during mint_all_genomes, no
\* later step of the driver writes to the table: the rest of the page is not
\* processed.
C10_EarlyStop ==
    [][(/\ command = "mint-all"
        /\ pc = "processing"
        /\ get_current_supply(store) >= MAX_SUPPLY) => store' = store]_vars

\* the driver has left its loop through one of its two breaks
LoopExited ==
    /\ command = "mint-all"
    /\ pc = "done"
    /\ genomes = <<>> \/ get_current_supply(store) >= MAX_SUPPLY

\* C11: every run of mint_all_genomes eventually leaves its loop, because a
\* page came back empty or because the supply reached MAX_SUPPLY, whatever
\* rows are skipped or fail to persist.
C11_ExitsItsLoop == (command = "mint-all") ~> LoopExited

\* what does hold of every run of mint_all_genomes: it ends, by one of the two
\* breaks or by the AssertionError of mint_tokens, which the driver does not
\* catch; and a run that returns has left the loop through a break
C11_Termination ==
    /\ (command = "mint-all") ~> (LoopExited \/ (command = "mint-all" /\ pc = "crashed"))
    /\ []((command = "mint-all" /\ pc = "done") => LoopExited)

\* the driver has returned below the maximum supply after more than one page,
\* leaving behind a row below the threshold
C11_Witness ==
    /\ LoopExited
    /\ offset > batch_size
    /\ get_current_supply(store) < MAX_SUPPLY
    /\ \E i \in Unminted(store) :
          calculate_token_amount(Row(i), K, store) < MIN_MINT_THRESHOLD

\* the rows with a smaller id and the same dna_tetrad as row i
EarlierSame(i) == {j \in Ids : j < i /\ Row(j).dna_tetrad = Row(i).dna_tetrad}

\* 1.0 without an earlier duplicate, 1 / (1 + d) with d of them
OneOverDuplicates(i) ==
    IF EarlierSame(i) = {} THEN SCORE ELSE RoundDiv(SCORE, 1 + Cardinality(EarlierSame(i)))

\* C12 (as stated): for every row, whatever its dna_tetrad, calculate_uniqueness
\* is 1.0 when no row with a smaller id has the same dna_tetrad and 1 / (1 + d)
\* when d rows have, whichever rows are minted.
C12_UniquenessEveryString ==
    \A i \in Ids : calculate_uniqueness(Row(i), store) = OneOverDuplicates(i)

\* C12 (amended): for every row with a non-empty dna_tetrad calculate_uniqueness
\* is 1.0 when no row with a smaller id has the same dna_tetrad and 1 / (1 + d)
\* when d rows have; for a row with an empty dna_tetrad it is 0.0, first
\* occurrence or not; neither depends on which rows are minted, and it is the
\* value mint_tokens stores with a minted row.
C12_Uniqueness ==
    \A i \in Ids :
        LET expected == IF Row(i).dna_tetrad = <<>> THEN 0 ELSE OneOverDuplicates(i)
        IN  /\ calculate_uniqueness(Row(i), store) = expected
            /\ Row(i).rsm_minted => Row(i).rsm_scores.uniqueness = expected

\* a row with a non-empty dna_tetrad and two earlier identical rows has been
\* minted with uniqueness 1/3 while the two earlier rows are unminted
C12_Witness ==
    \E i \in Minted(store) :
        /\ Row(i).dna_tetrad # <<>>
        /\ Cardinality(EarlierSame(i)) = 2
        /\ EarlierSame(i) \subseteq Unminted(store)
        /\ 3 * Row(i).rsm_scores.uniqueness = SCORE

\* the engine's K is what calibrate_K gives on table db for some sample of its
\* unminted rows: 1.0 when there is no unminted row or the estimate is zero, and
\* otherwise K * (mean raw score of the sample) * (number of all rows) = MAX_SUPPLY
CalibratedOn(db) ==
    \E sample \in Samples(db, SampleSize) :
        LET total_raw_score == SumRaw(db, sample)
            total_genomes == get_genome_count(db)
        IN  IF sample = {} \/ total_raw_score * total_genomes = 0
            THEN K = K_ONE
            ELSE K.num * total_raw_score * total_genomes
                     = (MAX_SUPPLY \div UNIT) * Cardinality(sample) * K.den

\* C13: while a command runs, the engine's K is the one calibrate_K gave on the
\* table the command found: target / (mean raw score of the sampled unminted
\* rows * number of all rows), or 1.0 when there was no unminted row or the
\* estimate was zero; --calibrate leaves the table as it was; and no step of
\* mint_all_genomes or mint_tokens changes K.
C13_Calibrator ==
    /\ [](command # "none" => CalibratedOn(store0))
    /\ [](command = "calibrate" => store = store0)
    /\ [][(pc \in {"paging", "processing"}) => (K' = K)]_vars

\* a run of mint_all_genomes has minted rows and ended with the K its
\* calibration set, which is not 1.0
C13_Witness ==
    /\ command = "mint-all"
    /\ pc = "done"
    /\ total_minted_count > 1
    /\ K # K_ONE
    /\ Cardinality(Unminted(store0)) > SampleSize

\* C14: with two processes in mint_tokens on one table the supply can exceed
\* MAX_SUPPLY, and it is the interleaving of reads and writes that does it: the
\* step that takes the supply over MAX_SUPPLY is the UPDATE of a process whose
\* read of the supply is no longer the committed supply.
C14_ExcessOnlyByStaleRead ==
    [][(get_current_supply(store) <= MAX_SUPPLY /\ get_current_supply(store') > MAX_SUPPLY) =>
          \E p \in Procs :
              /\ procs[p].pc = "decided"
              /\ procs'[p].pc = "returned"
              /\ procs[p].current_supply # get_current_supply(store)]_vars

\* both processes have written, on different rows, and the supply is above
\* MAX_SUPPLY
C14_Witness ==
    /\ get_current_supply(store) > MAX_SUPPLY
    /\ \A p \in Procs : procs[p].pc = "returned" /\ procs[p].plan.kind = "update"
    /\ \E p, q \in Procs : procs[p].plan.genome_id # procs[q].plan.genome_id

====
